---- MODULE Spec2Model ----
(***************************************************************************)
(* Verification model of the auto-remediation backend:                     *)
(*   - ErrorService (incident deduplication, remediation attempts) over    *)
(*     the relational store, sequentially (Spec) and with two sessions     *)
(*     interleaved at the awaits of create_incident (SpecConc);            *)
(*   - ApprovalService (SpecApproval);                                     *)
(*   - MonitoringService: evaluation passes and rule management            *)
(*     (SpecMonitoring), the monitoring task with its awaits (SpecLoop,    *)
(*     SpecPass);                                                          *)
(*   - CursorCLIAgent.test_fix over TestExecutionService (SpecAgent).      *)
(* Rows are kept in insertion order; a row's id is its position.           *)
(***************************************************************************)
EXTENDS Integers, Sequences, FiniteSets, TLC

VARIABLES
    incidents,   \* table error_incidents: sequence of rows
    attempts,    \* table remediation_attempts: sequence of rows
    last,        \* the most recent service call: operation and outcome
    sess,        \* sessions of create_incident, monitoring tasks, the agent's test service
    approvals,   \* approval id -> the record of the id as last created or decided
    sent,        \* the Slack messages posted
    audit_logs,  \* table audit_logs: sequence of rows
    now,         \* datetime.utcnow(), in minutes
    alert_rules, \* MonitoringService.alert_rules: sequence of rules
    active_alerts \* MonitoringService.active_alerts: set of rule names

vars ==
    <<incidents, attempts, last, sess, approvals, sent, audit_logs, now, alert_rules,
      active_alerts>>

(***************************************************************************)
(* Bounds of the model                                                     *)
(***************************************************************************)
\* reports accepted in a run: bounds the rows and their occurrence counts
MaxReports == 3

\* Python None: as an optional text value, and as an absent row
None == "None"
NoRow == 0

(***************************************************************************)
(* Input domains                                                           *)
(***************************************************************************)
ErrorTypes == {"ValueError"}
ServiceNames == {"svc"}
Environments == {"production", "staging"}
Messages == {"boom"}
Severities == {"high"}
\* status is free text: conventional values and one unrecognized string
Statuses == {"open", "investigating", "resolved", "bogus"}
\* an id that matches no row is any id beyond the rows stored
IncidentIds == 1..(MaxReports + 1)
AttemptIds == 1..2
\* the database round trip of a call that raises, if one does
Faults == {"none", "query", "commit", "refresh"}

Fingerprint(r) == <<r.error_type, r.service_name, r.environment, r.error_message>>

(***************************************************************************)
(* ErrorIncident / RemediationAttempt rows                                 *)
(***************************************************************************)
\* mutant: status left to the column default of the mapped class
ErrorIncident_column_default(error_type, severity, service_name, environment, error_message) ==
    [error_type |-> error_type, severity |-> severity,
     service_name |-> service_name, environment |-> environment,
     error_message |-> error_message,
     occurrence_count |-> 1, status |-> "detected"]

ErrorIncident(error_type, severity, service_name, environment, error_message) ==
    [error_type |-> error_type, severity |-> severity,
     service_name |-> service_name, environment |-> environment,
     error_message |-> error_message,
     occurrence_count |-> 1, status |-> "open"]

\* a remediation_attempts row with the column defaults
RemediationAttempt(incident_id) ==
    [incident_id |-> incident_id, status |-> "started",
     test_results |-> None, completed_at |-> None]

\* keyword arguments the mapped class RemediationAttempt accepts: its columns
RemediationAttemptColumns ==
    {"id", "incident_id", "cursor_cli_version", "analysis_prompt",
     "fix_suggestion", "test_results", "github_pr_url", "status",
     "created_at", "completed_at"}

(***************************************************************************)
(* Query helpers                                                           *)
(***************************************************************************)
\* Result.scalar_one_or_none: no row -> None, one row -> it, more -> raises
scalar_one_or_none(ids) ==
    IF ids = {} THEN [exc |-> "", row |-> NoRow]
    ELSE IF Cardinality(ids) = 1 THEN [exc |-> "", row |-> CHOOSE i \in ids : TRUE]
    ELSE [exc |-> "MultipleResultsFound", row |-> NoRow]

\* mutant: the status filter names the statuses of the column comment
SimilarIds_column_statuses(store, error_type, service_name, environment, error_message) ==
    {i \in 1..Len(store) :
        /\ store[i].error_type = error_type
        /\ store[i].service_name = service_name
        /\ store[i].environment = environment
        /\ store[i].error_message = error_message
        /\ store[i].status \in {"detected", "analyzing"}}

\* the WHERE clause of _find_similar_incident
SimilarIds(store, error_type, service_name, environment, error_message) ==
    {i \in 1..Len(store) :
        /\ store[i].error_type = error_type
        /\ store[i].service_name = service_name
        /\ store[i].environment = environment
        /\ store[i].error_message = error_message
        /\ store[i].status \in {"open", "investigating"}}

\* _find_similar_incident: any exception of the query (query_fails: execute
\* raised; MultipleResultsFound from scalar_one_or_none) is logged and
\* turned into None
_find_similar_incident(store, error_type, service_name, environment, error_message, query_fails) ==
    IF query_fails THEN NoRow
    ELSE LET r == scalar_one_or_none(
                    SimilarIds(store, error_type, service_name, environment, error_message))
         IN IF r.exc # "" THEN NoRow ELSE r.row

\* get_incident / get_remediation_attempt: the row (None if absent); any
\* exception of the query is re-raised as DatabaseError
get_incident(store, incident_id, fault) ==
    IF fault = "query" THEN [exc |-> "DatabaseError", row |-> NoRow]
    ELSE scalar_one_or_none({i \in 1..Len(store) : i = incident_id})

get_remediation_attempt(store, attempt_id, fault) ==
    IF fault = "query" THEN [exc |-> "DatabaseError", row |-> NoRow]
    ELSE scalar_one_or_none({i \in 1..Len(store) : i = attempt_id})

(***************************************************************************)
(* Outcome of a call, as the caller sees it                                *)
(*   out       "ok" or the class of the exception that leaves the call     *)
(*   inner     the class of the exception caught inside ("" if none)       *)
(*   operation the operation name the DatabaseError carries                *)
(*   ret       the id of the row returned (NoRow if the call raised)       *)
(*   supplied  update_remediation_attempt: the fields passed as not None   *)
(***************************************************************************)
\* a call that returned no dict
NoResult == [kind |-> "none"]

Ok(op, ret) ==
    [op |-> op, out |-> "ok", inner |-> "", operation |-> "", ret |-> ret,
     supplied |-> {}, result |-> NoResult]

\* a call that returned a dict
Returned(op, result) == [Ok(op, NoRow) EXCEPT !.result = result]

\* except Exception as e: rollback; raise DatabaseError(..., operation)
Raised(op, inner) ==
    [op |-> op, out |-> "DatabaseError", inner |-> inner, operation |-> op,
     ret |-> NoRow, supplied |-> {}, result |-> NoResult]

\* what commit and rollback leave in a table: `written` once the commit went
\* through (a later rollback undoes nothing), `before` if the commit raised
Committed(before, written, fault) ==
    IF fault = "commit" THEN before ELSE written

\* commit(); refresh(row); return row -- either await may raise
Outcome(op, ret, fault) ==
    IF fault \in {"commit", "refresh"} THEN Raised(op, "SQLAlchemyError") ELSE Ok(op, ret)

(***************************************************************************)
(* ErrorService.create_incident                                            *)
(***************************************************************************)
IncrementOccurrence(store, id) ==
    [store EXCEPT ![id].occurrence_count = @ + 1]

\* mutant: the table refuses a second open incident of a fingerprint
Insert_unique_fingerprint(store, row) ==
    IF \E i \in 1..Len(store) :
          /\ Fingerprint(store[i]) = Fingerprint(row)
          /\ store[i].status \in {"open", "investigating"}
    THEN store
    ELSE Append(store, row)

\* db.add(incident) and the INSERT of the commit: error_incidents has no
\* unique constraint besides its primary key
Insert(store, row) == Append(store, row)

\* sum of occurrence_count over the rows
RECURSIVE TotalReports(_)
TotalReports(store) ==
    IF store = <<>> THEN 0
    ELSE Head(store).occurrence_count + TotalReports(Tail(store))

create_incident(error_type, severity, service_name, environment, error_message, query_fails, fault) ==
    LET existing == _find_similar_incident(incidents, error_type, service_name,
                                           environment, error_message, query_fails)
    IN /\ fault # "query"
       /\ TotalReports(incidents) < MaxReports
       /\ IF existing # NoRow
          THEN /\ incidents' = Committed(incidents,
                                         IncrementOccurrence(incidents, existing), fault)
               /\ last' = Outcome("create_incident", existing, fault)
          ELSE /\ incidents' = Committed(incidents,
                                  Insert(incidents,
                                         ErrorIncident(error_type, severity, service_name,
                                                       environment, error_message)),
                                  fault)
               /\ last' = Outcome("create_incident", Len(incidents) + 1, fault)
       /\ UNCHANGED <<attempts, sess, approvals, sent, audit_logs, now, alert_rules,
                      active_alerts>>

(***************************************************************************)
(* ErrorService.update_incident_status                                     *)
(***************************************************************************)
\* mutant: only a recognized status is written
SetStatus_validated(store, id, status) ==
    IF status \in {"open", "investigating", "resolved", "closed"}
    THEN [store EXCEPT ![id].status = status]
    ELSE store

SetStatus(store, id, status) ==
    [store EXCEPT ![id].status = status]

\* the incidents table and the outcome the call leaves
update_incident_status_result(store, incident_id, status, fault) ==
    LET incident == get_incident(store, incident_id, fault)
    IN IF incident.exc # ""
       THEN [incidents |-> store,
             last |-> Raised("update_incident_status", incident.exc)]
       ELSE IF incident.row = NoRow
       THEN [incidents |-> store,
             last |-> Raised("update_incident_status", "NotFoundError")]
       ELSE [incidents |-> Committed(store, SetStatus(store, incident.row, status), fault),
             last |-> Outcome("update_incident_status", incident.row, fault)]

update_incident_status(incident_id, status, fault) ==
    LET result == update_incident_status_result(incidents, incident_id, status, fault)
    IN /\ incidents' = result.incidents
       /\ last' = result.last
       /\ UNCHANGED <<attempts, sess, approvals, sent, audit_logs, now, alert_rules,
                      active_alerts>>

(***************************************************************************)
(* ErrorService.create_remediation_attempt                                 *)
(* RemediationAttempt(incident_id=, remediation_type=, description=):      *)
(* the declarative constructor raises TypeError for a keyword that is no   *)
(* attribute of the mapped class, so no row is ever added.                 *)
(***************************************************************************)
ConstructorAccepts(keywords) == keywords \subseteq RemediationAttemptColumns

create_remediation_attempt(incident_id, fault) ==
    LET incident == get_incident(incidents, incident_id, fault)
    IN /\ IF incident.exc # ""
          THEN /\ attempts' = attempts
               /\ last' = Raised("create_remediation_attempt", incident.exc)
          ELSE IF incident.row = NoRow
          THEN /\ attempts' = attempts
               /\ last' = Raised("create_remediation_attempt", "NotFoundError")
          ELSE IF ~ConstructorAccepts({"incident_id", "remediation_type", "description"})
          THEN /\ attempts' = attempts
               /\ last' = Raised("create_remediation_attempt", "TypeError")
          ELSE /\ attempts' = Committed(attempts,
                                  Append(attempts, RemediationAttempt(incident.row)), fault)
               /\ last' = Outcome("create_remediation_attempt", Len(attempts) + 1, fault)
       /\ UNCHANGED <<incidents, sess, approvals, sent, audit_logs, now, alert_rules,
                      active_alerts>>

(***************************************************************************)
(* ErrorService.update_remediation_attempt                                 *)
(* status and test_results are columns of the row; analysis_result,        *)
(* fix_code and pr_url are not, so assigning them sets an attribute of the *)
(* loaded object only and writes nothing to the table.                     *)
(***************************************************************************)
\* mutant: the argument is assigned also when it is None
AssignIfSupplied_always(row, field, value) ==
    IF field \notin DOMAIN row THEN row
    ELSE [row EXCEPT ![field] = value]

\* setattr on the loaded row when the argument is not None
AssignIfSupplied(row, field, value) ==
    IF value = None \/ field \notin DOMAIN row THEN row
    ELSE [row EXCEPT ![field] = value]

ApplyAttemptUpdate(row, status, analysis_result, fix_code, test_results, pr_url) ==
    AssignIfSupplied(
      AssignIfSupplied(
        AssignIfSupplied(
          AssignIfSupplied(
            AssignIfSupplied(row, "status", status),
            "analysis_result", analysis_result),
          "fix_code", fix_code),
        "test_results", test_results),
      "pr_url", pr_url)

Supplied(status, analysis_result, fix_code, test_results, pr_url) ==
    {f \in {"status", "analysis_result", "fix_code", "test_results", "pr_url"} :
        [status |-> status, analysis_result |-> analysis_result,
         fix_code |-> fix_code, test_results |-> test_results,
         pr_url |-> pr_url][f] # None}

\* the remediation_attempts table and the outcome the call leaves
update_remediation_attempt_result(store, attempt_id, status, analysis_result, fix_code, test_results, pr_url, fault) ==
    LET attempt == get_remediation_attempt(store, attempt_id, fault)
    IN IF attempt.exc # ""
       THEN [attempts |-> store,
             last |-> Raised("update_remediation_attempt", attempt.exc)]
       ELSE IF attempt.row = NoRow
       THEN [attempts |-> store,
             last |-> Raised("update_remediation_attempt", "NotFoundError")]
       ELSE [attempts |-> Committed(store,
                             [store EXCEPT ![attempt.row] =
                                 ApplyAttemptUpdate(@, status, analysis_result,
                                                    fix_code, test_results, pr_url)],
                             fault),
             last |-> [Outcome("update_remediation_attempt", attempt.row, fault)
                         EXCEPT !.supplied =
                           Supplied(status, analysis_result, fix_code,
                                    test_results, pr_url)]]

update_remediation_attempt(attempt_id, status, analysis_result, fix_code, test_results, pr_url, fault) ==
    LET result == update_remediation_attempt_result(attempts, attempt_id, status,
                                                    analysis_result, fix_code,
                                                    test_results, pr_url, fault)
    IN /\ attempts' = result.attempts
       /\ last' = result.last
       /\ UNCHANGED <<incidents, sess, approvals, sent, audit_logs, now, alert_rules,
                      active_alerts>>

\* argument values of update_remediation_attempt (None: not supplied)
AttemptStatuses == {None, "fixed", "approved"}
OptionalText == {None, "x"}

(***************************************************************************)
(* Sequential specification of ErrorService over an empty database         *)
(***************************************************************************)
NoCall ==
    [op |-> "init", out |-> "ok", inner |-> "", operation |-> "", ret |-> NoRow,
     supplied |-> {}, result |-> NoResult]

Init ==
    /\ incidents = <<>>
    /\ attempts = <<>>
    /\ last = NoCall
    /\ sess = <<>>
    /\ approvals = <<>>
    /\ sent = {}
    /\ audit_logs = <<>>
    /\ now = 0
    /\ alert_rules = <<>>
    /\ active_alerts = {}

CreateIncident ==
    \E et \in ErrorTypes, sev \in Severities, svc \in ServiceNames,
       env \in Environments, msg \in Messages,
       qf \in BOOLEAN, f \in Faults :
         create_incident(et, sev, svc, env, msg, qf, f)

UpdateIncidentStatus ==
    \E id \in IncidentIds, s \in Statuses, f \in Faults :
         update_incident_status(id, s, f)

CreateRemediationAttempt ==
    \E id \in IncidentIds, f \in Faults : create_remediation_attempt(id, f)

\* no attempt row exists here, so the lookup decides the call: the field
\* arguments are fixed to those of the call the endpoint makes
UpdateRemediationAttempt ==
    \E id \in AttemptIds, f \in Faults :
         update_remediation_attempt(id, "completed", None, "x", "x", None, f)

Next ==
    \/ CreateIncident
    \/ UpdateIncidentStatus
    \/ CreateRemediationAttempt
    \/ UpdateRemediationAttempt

Spec == Init /\ [][Next]_vars

(***************************************************************************)
(* ErrorService over a database that holds remediation attempts            *)
(* (rows of remediation_attempts with the column defaults, for an incident *)
(* as create_incident stores it): the attempt operations.                  *)
(***************************************************************************)
InitAttempts ==
    /\ incidents = <<ErrorIncident("ValueError", "high", "svc", "production", "boom")>>
    /\ attempts = <<RemediationAttempt(1), RemediationAttempt(1)>>
    /\ last = NoCall
    /\ sess = <<>>
    /\ approvals = <<>>
    /\ sent = {}
    /\ audit_logs = <<>>
    /\ now = 0
    /\ alert_rules = <<>>
    /\ active_alerts = {}

UpdateStoredRemediationAttempt ==
    \E id \in 1..3, s \in AttemptStatuses, ar \in OptionalText,
       fc \in OptionalText, tr \in OptionalText, pr \in OptionalText, f \in Faults :
         update_remediation_attempt(id, s, ar, fc, tr, pr, f)

NextAttempts ==
    \/ UpdateStoredRemediationAttempt
    \/ CreateRemediationAttempt

SpecAttempts == InitAttempts /\ [][NextAttempts]_vars

(***************************************************************************)
(* Concurrent create_incident calls: every request has a session of its    *)
(* own (get_db), and a call can be suspended at each await.  The call is   *)
(* split at the await between the existence check and the commit: the      *)
(* check loads the matching row into the session, the commit writes what   *)
(* the session holds (the loaded occurrence_count plus one, or the new     *)
(* row).  The lookup does not fail here, so that a second open incident of *)
(* a fingerprint can come from the interleaving only.                      *)
(***************************************************************************)
Sessions == {1, 2}

NoArgs ==
    [error_type |-> None, severity |-> None, service_name |-> None,
     environment |-> None, error_message |-> None]

Idle == [pc |-> "idle", args |-> NoArgs, existing |-> NoRow, occurrence_count |-> 0]

\* the calls that passed their existence check and have yet to commit
Checked == {p \in Sessions : sess[p].pc = "checked"}

\* existing_incident = await self._find_similar_incident(...)
create_incident_check(p, error_type, severity, service_name, environment, error_message) ==
    LET existing == _find_similar_incident(incidents, error_type, service_name,
                                           environment, error_message, FALSE)
    IN /\ sess[p].pc = "idle"
       /\ TotalReports(incidents) + Cardinality(Checked) < MaxReports
       /\ sess' = [sess EXCEPT ![p] =
                     [pc |-> "checked",
                      args |-> [error_type |-> error_type, severity |-> severity,
                                service_name |-> service_name,
                                environment |-> environment,
                                error_message |-> error_message],
                      existing |-> existing,
                      occurrence_count |->
                         IF existing = NoRow THEN 0
                         ELSE incidents[existing].occurrence_count]]
       /\ UNCHANGED <<incidents, attempts, last, approvals, sent, audit_logs, now, alert_rules,
                      active_alerts>>

\* existing_incident.occurrence_count += 1 on the loaded object: the UPDATE
\* of the commit writes the value the session computed
WriteOccurrence(store, id, loaded_count) ==
    [store EXCEPT ![id].occurrence_count = loaded_count + 1]

\* await self.db.commit() (and refresh) of the suspended call
create_incident_commit(p, fault) ==
    LET call == sess[p]
    IN /\ call.pc = "checked"
       /\ fault # "query"
       /\ IF call.existing # NoRow
          THEN /\ incidents' = Committed(incidents,
                                  WriteOccurrence(incidents, call.existing,
                                                  call.occurrence_count),
                                  fault)
               /\ last' = Outcome("create_incident", call.existing, fault)
          ELSE /\ incidents' = Committed(incidents,
                                  Insert(incidents,
                                         ErrorIncident(call.args.error_type,
                                                       call.args.severity,
                                                       call.args.service_name,
                                                       call.args.environment,
                                                       call.args.error_message)),
                                  fault)
               /\ last' = Outcome("create_incident", Len(incidents) + 1, fault)
       /\ sess' = [sess EXCEPT ![p] = Idle]
       /\ UNCHANGED <<attempts, approvals, sent, audit_logs, now, alert_rules,
                      active_alerts>>

InitConc ==
    /\ incidents = <<>>
    /\ attempts = <<>>
    /\ last = NoCall
    /\ sess = [p \in Sessions |-> Idle]
    /\ approvals = <<>>
    /\ sent = {}
    /\ audit_logs = <<>>
    /\ now = 0
    /\ alert_rules = <<>>
    /\ active_alerts = {}

CheckSimilarIncident ==
    \E p \in Sessions, et \in ErrorTypes, sev \in Severities, svc \in ServiceNames,
       env \in Environments, msg \in Messages :
         create_incident_check(p, et, sev, svc, env, msg)

CommitIncident ==
    \E p \in Sessions, f \in Faults : create_incident_commit(p, f)

NextConc ==
    \/ CheckSimilarIncident
    \/ CommitIncident

SpecConc == InitConc /\ [][NextConc]_vars

(***************************************************************************)
(* ApprovalService.  The service keeps no table of approval records: a     *)
(* record is a dict that lives for one call.  approvals maps an approval   *)
(* id to the record of that id as the last call that created or decided it *)
(* left it; sent is the set of Slack messages posted.                      *)
(***************************************************************************)
MaxApprovals == 1

\* str(uuid.uuid4()) of the records created so far and of the next one
ApprovalIds == 1..MaxApprovals

\* "dummy-incident-id", which is the id of no incident
DummyIncidentId == 0

\* a record without the key "expires_at"
NoExpiry == 0

ApprovalTypes == {"automatic", "manual", "emergency"}

\* approvers=None and approvers=[] are both falsy: {} stands for either
ApproverLists == {{}, {"alice"}}

\* auto_approve_after=None and 0 are both falsy: 0 stands for either
Timeouts == {0, 15}

SlackChannels == {None, "#ops"}

\* the Slack client is missing, posts the message, or fails to post it
SlackStates == {"unconfigured", "ok", "error"}

ApproverIds == {"admin", "tech-lead", "alice"}
Actions == {"approve", "reject", "defer"}
Comments == {None, "lgtm"}

\* mutant: the environment of the incident is not looked at
_get_approval_config_severity_only(incident) ==
    IF incident.severity = "critical"
    THEN [default_approvers |-> {"admin", "tech-lead", "security-team"},
          auto_approve_timeout |-> 30,
          require_multiple_approvers |-> TRUE]
    ELSE IF incident.severity = "high"
    THEN [default_approvers |-> {"admin", "tech-lead"},
          auto_approve_timeout |-> 45,
          require_multiple_approvers |-> FALSE]
    ELSE [default_approvers |-> {"admin", "tech-lead"},
          auto_approve_timeout |-> 60,
          require_multiple_approvers |-> FALSE]

_get_approval_config(incident) ==
    LET base_config ==
          [default_approvers |-> {"admin", "tech-lead"},
           auto_approve_timeout |-> 60,
           require_multiple_approvers |-> FALSE]
        by_severity ==
          IF incident.severity = "critical"
          THEN [default_approvers |-> {"admin", "tech-lead", "security-team"},
                auto_approve_timeout |-> 30,
                require_multiple_approvers |-> TRUE]
          ELSE IF incident.severity = "high"
          THEN [base_config EXCEPT !.default_approvers = {"admin", "tech-lead"},
                                   !.auto_approve_timeout = 45]
          ELSE base_config
    IN IF incident.environment = "production"
       THEN [by_severity EXCEPT !.require_multiple_approvers = TRUE]
       ELSE by_severity

_create_approval_record(approval_id, incident_id, approval_type, approvers, auto_approve_after) ==
    [id |-> approval_id, incident_id |-> incident_id, approval_type |-> approval_type,
     status |-> "pending", approvers |-> approvers,
     created_at |-> now, expires_at |-> now + auto_approve_after,
     approved_by |-> None, rejected_by |-> None, comment |-> None,
     slack_message |-> None]

\* the same fresh pending record for every id, whatever was decided before
_get_approval_record(approval_id) ==
    [id |-> approval_id, incident_id |-> DummyIncidentId, approval_type |-> "manual",
     status |-> "pending", approvers |-> {"admin", "tech-lead"},
     created_at |-> now, expires_at |-> NoExpiry,
     approved_by |-> None, rejected_by |-> None, comment |-> None,
     slack_message |-> None]

\* mutant: the record is left as it was created
_auto_approve_pending(approval_request) ==
    [record |-> approval_request,
     result |-> [kind |-> "approval", approved |-> TRUE,
                 approval_type |-> "automatic", approved_by |-> "system"]]

_auto_approve(approval_request) ==
    [record |-> [approval_request EXCEPT !.status = "approved", !.approved_by = "system"],
     result |-> [kind |-> "approval", approved |-> TRUE,
                 approval_type |-> "automatic", approved_by |-> "system"]]

_emergency_approve(approval_request) ==
    [record |-> [approval_request EXCEPT !.status = "approved",
                                         !.approved_by = "emergency_system"],
     result |-> [kind |-> "approval", approved |-> TRUE,
                 approval_type |-> "emergency", approved_by |-> "emergency_system"]]

_approve_remediation(approval_record, approver_id, comment) ==
    [record |-> [approval_record EXCEPT !.status = "approved",
                                        !.approved_by = approver_id,
                                        !.comment = comment],
     result |-> [kind |-> "approved", approved |-> TRUE, approved_by |-> approver_id,
                 comment |-> comment]]

_reject_remediation(approval_record, approver_id, comment) ==
    [record |-> [approval_record EXCEPT !.status = "rejected",
                                        !.rejected_by = approver_id,
                                        !.comment = comment],
     result |-> [kind |-> "rejected", approved |-> FALSE, rejected_by |-> approver_id,
                 comment |-> comment]]

\* uuid.UUID(user_id) accepts the canonical hexadecimal form only; no
\* approver name is of that form
IsUUID(user_id) == user_id \notin {"admin", "tech-lead", "security-team", "alice"}

AuditEntry(approval_record, user_id, action) ==
    [user_id |-> user_id, action |-> action, resource_type |-> "approval",
     resource_id |-> approval_record.id]

\* mutant: a failure to build or store the entry is raised to the caller
_log_approval_action_raising(logs, approval_record, user_id, action, fault) ==
    IF user_id # "system" /\ ~IsUUID(user_id) THEN [logs |-> logs, exc |-> "ValueError"]
    ELSE IF fault = "commit" THEN [logs |-> logs, exc |-> "SQLAlchemyError"]
    ELSE [logs |-> Append(logs, AuditEntry(approval_record, user_id, action)),
          exc |-> ""]

\* an AuditLog row is added unless building it (uuid.UUID(user_id)) or the
\* commit raises; the exception is logged and swallowed
_log_approval_action(logs, approval_record, user_id, action, fault) ==
    IF user_id # "system" /\ ~IsUUID(user_id) THEN [logs |-> logs, exc |-> ""]
    ELSE IF fault = "commit" THEN [logs |-> logs, exc |-> ""]
    ELSE [logs |-> Append(logs, AuditEntry(approval_record, user_id, action)),
          exc |-> ""]

\* the id uuid4 returns: one that no call has used
NextApprovalId == CHOOSE id \in ApprovalIds : id \notin DOMAIN approvals

Store(approval_id, record) ==
    [i \in DOMAIN approvals \cup {approval_id} |->
        IF i = approval_id THEN record ELSE approvals[i]]

\* slack_service.is_configured() and slack_channel
Notifies(slack, slack_channel) == slack # "unconfigured" /\ slack_channel # None

\* the attributes of the settings object (the fields of Settings)
SettingsFields ==
    {"DEBUG", "SECRET_KEY", "ALLOWED_ORIGINS", "DATABASE_URL", "SLACK_BOT_TOKEN",
     "SLACK_SIGNING_SECRET", "SLACK_CHANNEL_ALERTS", "LOG_LEVEL", "ENABLE_AUDIT_LOG"}

\* mutant: the settings object has a FRONTEND_URL
BlocksBuilt_with_frontend_url == TRUE

\* _build_error_notification_blocks and _build_approval_request_blocks read
\* settings.FRONTEND_URL for a button url: an attribute the settings object
\* lacks raises AttributeError while the blocks are built
BlocksBuilt == "FRONTEND_URL" \in SettingsFields

\* chat_postMessage is reached and Slack accepts the message; every
\* exception before or in it is caught and reported as success = False
Delivered(slack) == BlocksBuilt /\ slack = "ok"

SlackResult(slack) == IF Delivered(slack) THEN "posted" ELSE "failed"

Message(kind, approval_id, channel, severity, approvers) ==
    [kind |-> kind, approval |-> approval_id, channel |-> channel,
     severity |-> severity, approvers |-> approvers]

Post(message, slack) ==
    IF Delivered(slack) THEN sent \cup {message} ELSE sent

request_approval(incident_id, approval_type, approvers, auto_approve_after, slack_channel, slack, fault) ==
    LET incident == get_incident(incidents, incident_id, fault)
        approval_config == _get_approval_config(incidents[incident.row])
        approval_request ==
            _create_approval_record(
                NextApprovalId, incident.row, approval_type,
                IF approvers # {} THEN approvers ELSE approval_config.default_approvers,
                IF auto_approve_after # 0 THEN auto_approve_after
                ELSE approval_config.auto_approve_timeout)
    IN /\ \E id \in ApprovalIds : id \notin DOMAIN approvals
       /\ IF incident.exc # ""
          THEN /\ last' = Raised("request_approval", incident.exc)
               /\ UNCHANGED <<approvals, sent>>
          ELSE IF incident.row = NoRow
          THEN /\ last' = Raised("request_approval", "NotFoundError")
               /\ UNCHANGED <<approvals, sent>>
          ELSE IF approval_type = "automatic"
          THEN /\ approvals' = Store(approval_request.id,
                                     _auto_approve(approval_request).record)
               /\ last' = Returned("request_approval",
                                   _auto_approve(approval_request).result)
               /\ UNCHANGED sent
          ELSE IF approval_type = "emergency"
          THEN /\ approvals' = Store(approval_request.id,
                                     _emergency_approve(approval_request).record)
               /\ sent' = IF Notifies(slack, slack_channel)
                          THEN Post(Message("error_notification", approval_request.id,
                                            slack_channel, "critical", {}),
                                    slack)
                          ELSE sent
               /\ last' = Returned("request_approval",
                                   _emergency_approve(approval_request).result)
          ELSE LET notified ==
                     IF Notifies(slack, slack_channel)
                     THEN [approval_request EXCEPT !.slack_message = SlackResult(slack)]
                     ELSE approval_request
               IN /\ approvals' = Store(approval_request.id, notified)
                  /\ sent' = IF Notifies(slack, slack_channel)
                             THEN Post(Message("approval_request", approval_request.id,
                                               slack_channel, None,
                                               approval_request.approvers),
                                       slack)
                             ELSE sent
                  /\ last' = Returned("request_approval",
                                      [kind |-> "record", record |-> notified])
       /\ UNCHANGED <<incidents, attempts, sess, audit_logs, now, alert_rules,
                      active_alerts>>

\* the decision taken and the audit entry written for it; an exception of
\* either is caught by the handler's except clause
Decide(approval_record, approver_id, action, comment, fault) ==
    LET decision ==
          IF action = "approve"
          THEN _approve_remediation(approval_record, approver_id, comment)
          ELSE _reject_remediation(approval_record, approver_id, comment)
        logged == _log_approval_action(audit_logs, decision.record, approver_id,
                                       IF action = "approve" THEN "approval_approve"
                                       ELSE "approval_reject",
                                       fault)
    IN [record |-> decision.record, result |-> decision.result,
        logs |-> logged.logs, exc |-> logged.exc]

process_approval_response(approval_id, approver_id, action, comment, fault) ==
    LET approval_record == _get_approval_record(approval_id)
        decided == Decide(approval_record, approver_id, action, comment, fault)
    IN /\ IF approval_record.status # "pending"
          THEN /\ last' = Raised("process_approval_response", "ValueError")
               /\ UNCHANGED <<approvals, audit_logs>>
          ELSE IF approver_id \notin approval_record.approvers
          THEN /\ last' = Raised("process_approval_response", "ValueError")
               /\ UNCHANGED <<approvals, audit_logs>>
          ELSE IF action \notin {"approve", "reject"}
          THEN /\ last' = Raised("process_approval_response", "ValueError")
               /\ UNCHANGED <<approvals, audit_logs>>
          ELSE IF decided.exc # ""
          THEN /\ last' = Raised("process_approval_response", decided.exc)
               /\ audit_logs' = decided.logs
               /\ UNCHANGED approvals
          ELSE /\ approvals' = Store(approval_id, decided.record)
               /\ audit_logs' = decided.logs
               /\ last' = Returned("process_approval_response", decided.result)
       /\ UNCHANGED <<incidents, attempts, sess, sent, now, alert_rules,
                      active_alerts>>

\* the view of the record _get_approval_record returns; a key the record
\* lacks reads as None
get_approval_status(approval_id) ==
    LET approval_record == _get_approval_record(approval_id)
    IN /\ last' = Returned("get_approval_status",
                           [kind |-> "status",
                            id |-> approval_record.id,
                            incident_id |-> approval_record.incident_id,
                            status |-> approval_record.status,
                            approval_type |-> approval_record.approval_type,
                            approvers |-> approval_record.approvers,
                            approved_by |-> approval_record.approved_by,
                            expires_at |-> approval_record.expires_at,
                            comment |-> approval_record.comment])
       /\ UNCHANGED <<incidents, attempts, sess, approvals, sent, audit_logs, now,
                      alert_rules, active_alerts>>

\* the pending records whose expires_at lies in the past
Overdue ==
    {id \in DOMAIN approvals :
        /\ approvals[id].status = "pending"
        /\ approvals[id].expires_at # NoExpiry
        /\ approvals[id].expires_at < now}

\* mutant: the overdue records are found and expired
check_expired_approvals_sweeping ==
    /\ approvals' = [id \in DOMAIN approvals |->
                        IF id \in Overdue
                        THEN [approvals[id] EXCEPT !.status = "expired"]
                        ELSE approvals[id]]
    /\ last' = Returned("check_expired_approvals",
                        [kind |-> "list", approvals |-> Overdue])
    /\ UNCHANGED <<incidents, attempts, sess, sent, audit_logs, now, alert_rules,
                   active_alerts>>

\* expired_approvals = []: no record is looked up and none is expired
check_expired_approvals ==
    /\ last' = Returned("check_expired_approvals",
                        [kind |-> "list", approvals |-> {}])
    /\ UNCHANGED <<incidents, attempts, sess, approvals, sent, audit_logs, now,
                   alert_rules, active_alerts>>

InitApproval ==
    /\ incidents = <<ErrorIncident("ValueError", "critical", "svc", "production", "boom"),
                     ErrorIncident("ValueError", "high", "svc", "staging", "boom")>>
    /\ attempts = <<>>
    /\ last = NoCall
    /\ sess = <<>>
    /\ approvals = <<>>
    /\ sent = {}
    /\ audit_logs = <<>>
    /\ now = 0
    /\ alert_rules = <<>>
    /\ active_alerts = {}

RequestApproval ==
    \E incident_id \in 1..3, approval_type \in ApprovalTypes,
       approvers \in ApproverLists, auto_approve_after \in Timeouts,
       slack_channel \in SlackChannels, slack \in SlackStates,
       f \in {"none", "query"} :
         request_approval(incident_id, approval_type, approvers, auto_approve_after,
                          slack_channel, slack, f)

ProcessApprovalResponse ==
    \E approval_id \in ApprovalIds, approver_id \in ApproverIds,
       action \in Actions, comment \in Comments, f \in {"none", "commit"} :
         process_approval_response(approval_id, approver_id, action, comment, f)

CheckExpiredApprovals == check_expired_approvals

GetApprovalStatus ==
    \E approval_id \in ApprovalIds : get_approval_status(approval_id)

NextApproval ==
    \/ RequestApproval
    \/ ProcessApprovalResponse
    \/ CheckExpiredApprovals
    \/ GetApprovalStatus

SpecApproval == InitApproval /\ [][NextApproval]_vars

(***************************************************************************)
(* ApprovalService with the clock: time passes between the calls, so that  *)
(* the expires_at of a record can lie in the past.                         *)
(***************************************************************************)
MaxClock == 61

\* minutes that pass in one step of the clock: more than every timeout
Elapsed == {61}

Tick ==
    /\ now < MaxClock
    /\ \E minutes \in Elapsed : now' = now + minutes
    /\ UNCHANGED <<incidents, attempts, last, sess, approvals, sent, audit_logs,
                   alert_rules, active_alerts>>

NextExpiry ==
    \/ RequestApproval
    \/ ProcessApprovalResponse
    \/ CheckExpiredApprovals
    \/ GetApprovalStatus
    \/ Tick

SpecExpiry == InitApproval /\ [][NextExpiry]_vars

(***************************************************************************)
(* ApprovalService over a database that holds one incident of any severity *)
(* and environment: the policy that request_approval resolves from it.     *)
(***************************************************************************)
PolicySeverities == {"critical", "high", "medium"}

InitPolicy ==
    /\ \E severity \in PolicySeverities, environment \in Environments :
          incidents = <<ErrorIncident("ValueError", severity, "svc", environment, "boom")>>
    /\ attempts = <<>>
    /\ last = NoCall
    /\ sess = <<>>
    /\ approvals = <<>>
    /\ sent = {}
    /\ audit_logs = <<>>
    /\ now = 0
    /\ alert_rules = <<>>
    /\ active_alerts = {}

SpecPolicy == InitPolicy /\ [][NextApproval]_vars

(***************************************************************************)
(* The endpoint's answer to the outcome of a service call                  *)
(* (except NotFoundError -> 404; except DatabaseError / Exception -> 500)  *)
(***************************************************************************)
EndpointStatus(out) ==
    IF out = "ok" THEN 200
    ELSE IF out = "NotFoundError" THEN 404
    ELSE 500

SameFingerprint(store, fp) ==
    {i \in 1..Len(store) : Fingerprint(store[i]) = fp}

\* the stored incidents of a fingerprint that are open or investigating
OpenMatches(store, fp) ==
    {i \in SameFingerprint(store, fp) : store[i].status \in {"open", "investigating"}}

\* the last call was a create_incident that returned a row it inserted
LastCallCreated ==
    /\ last.op = "create_incident"
    /\ last.out = "ok"
    /\ last.ret = Len(incidents)
    /\ last.ret # NoRow
    /\ incidents[last.ret].occurrence_count = 1

(***************************************************************************)
(* C1. Dedup idempotence: when a create_incident call has inserted the     *)
(* only incident of a fingerprint and that incident is still open, the     *)
(* next create_incident call with the same fingerprint (lookup and commit  *)
(* succeeding) inserts no row, raises the incident's occurrence_count to   *)
(* 2 and returns that incident, which stays the only one of the            *)
(* fingerprint.                                                            *)
(***************************************************************************)
C1_DedupIdempotence ==
    [][\A et \in ErrorTypes, sev \in Severities, svc \in ServiceNames,
          env \in Environments, msg \in Messages :
          ( /\ last'.op = "create_incident"
            /\ LastCallCreated
            /\ incidents[last.ret].status = "open"
            /\ SameFingerprint(incidents, <<et, svc, env, msg>>) = {last.ret}
            /\ create_incident(et, sev, svc, env, msg, FALSE, "none") )
          => /\ Len(incidents') = Len(incidents)
             /\ incidents'[last.ret].occurrence_count = 2
             /\ SameFingerprint(incidents', <<et, svc, env, msg>>) = {last.ret}
             /\ last'.out = "ok"
             /\ last'.ret = last.ret
      ]_vars

C1_Witness ==
    /\ last.op = "create_incident"
    /\ last.out = "ok"
    /\ last.ret = 1
    /\ Len(incidents) = 1
    /\ incidents[1].status = "open"
    /\ incidents[1].occurrence_count = 2

(***************************************************************************)
(* C2. A create_incident call whose fingerprint equals that of at least    *)
(* one stored incident that is open or investigating inserts no row and    *)
(* adds exactly 1 to the occurrence_count of one such incident -- also     *)
(* when several such incidents are stored and when the lookup query fails. *)
(***************************************************************************)
C2_NoDuplicateWhileOpen ==
    [][\A et \in ErrorTypes, sev \in Severities, svc \in ServiceNames,
          env \in Environments, msg \in Messages, qf \in BOOLEAN :
          ( /\ last'.op = "create_incident"
            /\ OpenMatches(incidents, <<et, svc, env, msg>>) # {}
            /\ create_incident(et, sev, svc, env, msg, qf, "none") )
          => /\ Len(incidents') = Len(incidents)
             /\ \E i \in OpenMatches(incidents, <<et, svc, env, msg>>) :
                   /\ incidents'[i].occurrence_count = incidents[i].occurrence_count + 1
                   /\ \A j \in 1..Len(incidents) : j # i => incidents'[j] = incidents[j]
      ]_vars

(***************************************************************************)
(* C3. Dedup boundary: a create_incident call for which no stored incident *)
(* of the same fingerprint is open or investigating (the only match may be *)
(* resolved) appends exactly one incident with occurrence_count 1, status  *)
(* "open" and the given fields, returns it, and leaves every stored        *)
(* incident unchanged.                                                     *)
(***************************************************************************)
C3_DedupBoundary ==
    [][\A et \in ErrorTypes, sev \in Severities, svc \in ServiceNames,
          env \in Environments, msg \in Messages, qf \in BOOLEAN :
          ( /\ last'.op = "create_incident"
            /\ OpenMatches(incidents, <<et, svc, env, msg>>) = {}
            /\ create_incident(et, sev, svc, env, msg, qf, "none") )
          => /\ Len(incidents') = Len(incidents) + 1
             /\ \A j \in 1..Len(incidents) : incidents'[j] = incidents[j]
             /\ incidents'[Len(incidents')] =
                   [error_type |-> et, severity |-> sev, service_name |-> svc,
                    environment |-> env, error_message |-> msg,
                    occurrence_count |-> 1, status |-> "open"]
             /\ last'.out = "ok"
             /\ last'.ret = Len(incidents')
             /\ attempts' = attempts
      ]_vars

C3_Witness ==
    /\ last.op = "create_incident"
    /\ last.out = "ok"
    /\ last.ret = 2
    /\ Len(incidents) = 2
    /\ Fingerprint(incidents[1]) = Fingerprint(incidents[2])
    /\ incidents[1].status = "resolved"
    /\ incidents[2].status = "open"
    /\ incidents[2].occurrence_count = 1

(***************************************************************************)
(* C4. Concurrency race: a create_incident call whose existence check      *)
(* found no row inserts its incident when it commits, whatever other calls *)
(* have inserted since the check -- also when an open incident of the same *)
(* fingerprint is stored by then.  Two calls that both pass the check so   *)
(* leave two open incidents of one fingerprint, starting from an empty     *)
(* store.                                                                  *)
(***************************************************************************)
C4_RacePastCheck ==
    [][\A p \in Sessions :
          ( /\ sess[p].pc = "checked"
            /\ sess[p].existing = NoRow
            /\ create_incident_commit(p, "none") )
          => /\ Len(incidents') = Len(incidents) + 1
             /\ \A j \in 1..Len(incidents) : incidents'[j] = incidents[j]
             /\ Fingerprint(incidents'[Len(incidents')]) =
                   <<sess[p].args.error_type, sess[p].args.service_name,
                     sess[p].args.environment, sess[p].args.error_message>>
             /\ incidents'[Len(incidents')].status = "open"
             /\ incidents'[Len(incidents')].occurrence_count = 1
      ]_vars

\* two open incidents of one fingerprint, each inserted by a call that found
\* no row, and nothing else stored
C4_Witness ==
    /\ Len(incidents) = 2
    /\ Fingerprint(incidents[1]) = Fingerprint(incidents[2])
    /\ incidents[1].status = "open"
    /\ incidents[2].status = "open"
    /\ incidents[1].occurrence_count = 1
    /\ incidents[2].occurrence_count = 1
    /\ last.op = "create_incident"
    /\ last.out = "ok"
    /\ last.ret = 2

C6_StatusOverwrite ==
    /\ [](\A id \in 1..Len(incidents), s \in Statuses :
             LET result == update_incident_status_result(incidents, id, s, "none")
             IN /\ result.last.out = "ok"
                /\ result.last.ret = id
                /\ result.incidents =
                      [incidents EXCEPT ![id] =
                         [error_type |-> @.error_type, severity |-> @.severity,
                          service_name |-> @.service_name,
                          environment |-> @.environment,
                          error_message |-> @.error_message,
                          occurrence_count |-> @.occurrence_count,
                          status |-> s]])
    /\ [][last'.op = "update_incident_status" => attempts' = attempts]_vars

\* an unrecognized status was accepted, on a second incident of a
\* fingerprint: the first one was taken out of open/investigating before
C6_Witness ==
    /\ last.op = "update_incident_status"
    /\ last.out = "ok"
    /\ last.ret = 1
    /\ Len(incidents) = 2
    /\ incidents[1].status = "bogus"
    /\ incidents[2].status = "resolved"

(***************************************************************************)
(* C7. update_incident_status, create_remediation_attempt and              *)
(* update_remediation_attempt called with an id that matches no row fail   *)
(* with a not-found failure the caller can tell from a persistence failure *)
(* (the endpoint answers 404), and leave the tables unchanged.             *)
(***************************************************************************)
\* a call of one of the three operations with an id that matches no row
C7_CallWithUnknownId ==
    \/ \E id \in IncidentIds, s \in Statuses :
          id \notin 1..Len(incidents) /\ update_incident_status(id, s, "none")
    \/ \E id \in IncidentIds :
          id \notin 1..Len(incidents) /\ create_remediation_attempt(id, "none")
    \/ \E id \in AttemptIds :
          /\ id \notin 1..Len(attempts)
          /\ update_remediation_attempt(id, "completed", None, "x", "x", None, "none")

C7_NotFoundDistinguishable ==
    [][C7_CallWithUnknownId
       => /\ last'.out = "NotFoundError"
          /\ EndpointStatus(last'.out) = 404
          /\ incidents' = incidents
          /\ attempts' = attempts
      ]_vars

(***************************************************************************)
(* C8. When a step of create_incident, update_incident_status,             *)
(* create_remediation_attempt or update_remediation_attempt raises, the    *)
(* call raises a persistence failure naming the operation and the tables   *)
(* are what they were before the call.                                     *)
(***************************************************************************)
C8_FailureLeavesNoWrite ==
    [][last'.out # "ok"
       => /\ last'.out = "DatabaseError"
          /\ last'.operation = last'.op
          /\ incidents' = incidents
          /\ attempts' = attempts
      ]_vars

\* the record of the id holds a decision made by process_approval_response
DecidedByResponse(record) ==
    \/ record.status = "rejected"
    \/ /\ record.status = "approved"
       /\ record.approved_by \notin {"system", "emergency_system"}

(***************************************************************************)
(* C9. Approval status transitions: in every step of request_approval,     *)
(* process_approval_response and check_expired_approvals the status of an  *)
(* approval record changes only from pending to approved, rejected or      *)
(* expired; a record that is approved, rejected or expired keeps its       *)
(* status.                                                                 *)
(***************************************************************************)
C9_StatusTransitions ==
    [][\A id \in DOMAIN approvals :
          /\ id \in DOMAIN approvals'
          /\ approvals'[id].status # approvals[id].status
               => /\ approvals[id].status = "pending"
                  /\ approvals'[id].status \in {"approved", "rejected", "expired"}
      ]_vars

(***************************************************************************)
(* C10. No re-processing: once process_approval_response has approved or   *)
(* rejected the record of an approval id, every later                      *)
(* process_approval_response call for that id -- any approver, either      *)
(* action, any comment -- fails and leaves the record's status,            *)
(* approved_by, rejected_by and comment as they were.                      *)
(***************************************************************************)
C10_NoReprocessing ==
    [][\A id \in DOMAIN approvals, approver_id \in ApproverIds,
          action \in {"approve", "reject"}, comment \in Comments,
          f \in {"none", "commit"} :
          ( /\ DecidedByResponse(approvals[id])
            /\ process_approval_response(id, approver_id, action, comment, f) )
          => /\ last'.out # "ok"
             /\ approvals'[id].status = approvals[id].status
             /\ approvals'[id].approved_by = approvals[id].approved_by
             /\ approvals'[id].rejected_by = approvals[id].rejected_by
             /\ approvals'[id].comment = approvals[id].comment
      ]_vars

\* the record of the id is one that request_approval created and nobody
\* has decided
RequestedAndPending(record) ==
    /\ record.incident_id # DummyIncidentId
    /\ record.status = "pending"

(***************************************************************************)
(* C11. Approver authorization: a process_approval_response call whose     *)
(* approver_id is not in the approvers list of the record request_approval *)
(* created for the approval id (the supplied approvers, or the policy      *)
(* defaults) fails, leaves the record pending and records no decision --   *)
(* for every action value, valid or not.                                   *)
(***************************************************************************)
C11_UnlistedApproverRefused ==
    [][\A id \in DOMAIN approvals, approver_id \in ApproverIds,
          action \in Actions, comment \in Comments, f \in {"none", "commit"} :
          ( /\ RequestedAndPending(approvals[id])
            /\ approver_id \notin approvals[id].approvers
            /\ process_approval_response(id, approver_id, action, comment, f) )
          => /\ last'.out # "ok"
             /\ approvals'[id] = approvals[id]
             /\ audit_logs' = audit_logs
      ]_vars

(***************************************************************************)
(* C12. Automatic approval: request_approval with approval_type automatic  *)
(* for a stored incident leaves the record it creates approved by          *)
(* "system", returns approved = TRUE and posts no Slack message, whether   *)
(* or not Slack is configured and a channel is given.                      *)
(***************************************************************************)
C12_AutomaticApproval ==
    [][\A incident_id \in 1..Len(incidents), approvers \in ApproverLists,
          auto_approve_after \in Timeouts, slack_channel \in SlackChannels,
          slack \in SlackStates :
          ( /\ last'.op = "request_approval"
            /\ request_approval(incident_id, "automatic", approvers, auto_approve_after,
                                slack_channel, slack, "none") )
          => /\ last'.out = "ok"
             /\ last'.result.approved = TRUE
             /\ last'.result.approved_by = "system"
             /\ DOMAIN approvals' = DOMAIN approvals \cup {NextApprovalId}
             /\ approvals'[NextApprovalId].status = "approved"
             /\ approvals'[NextApprovalId].approved_by = "system"
             /\ approvals'[NextApprovalId].approval_type = "automatic"
             /\ approvals'[NextApprovalId].incident_id = incident_id
             /\ \A id \in DOMAIN approvals : approvals'[id] = approvals[id]
             /\ sent' = sent
      ]_vars

\* an automatic request has returned its approval and nothing was posted
C12_Witness ==
    /\ last.op = "request_approval"
    /\ last.out = "ok"
    /\ last.result.kind = "approval"
    /\ last.result.approval_type = "automatic"
    /\ last.result.approved = TRUE
    /\ 1 \in DOMAIN approvals
    /\ approvals[1].status = "approved"
    /\ approvals[1].approved_by = "system"
    /\ sent = {}

(***************************************************************************)
(* C13. Emergency approval: request_approval with approval_type emergency  *)
(* for a stored incident leaves the record it creates approved by          *)
(* "emergency_system" and returns approved = TRUE, whether the             *)
(* notification succeeds or fails; when Slack is configured, a channel is  *)
(* given and Slack accepts messages, exactly one critical-severity message *)
(* is posted to that channel, and none when Slack is not configured or no  *)
(* channel is given.                                                       *)
(***************************************************************************)
C13_EmergencyApproval ==
    [][\A incident_id \in 1..Len(incidents), approvers \in ApproverLists,
          auto_approve_after \in Timeouts, slack_channel \in SlackChannels,
          slack \in SlackStates :
          ( /\ last'.op = "request_approval"
            /\ request_approval(incident_id, "emergency", approvers, auto_approve_after,
                                slack_channel, slack, "none") )
          => /\ last'.out = "ok"
             /\ last'.result.approved = TRUE
             /\ approvals'[NextApprovalId].status = "approved"
             /\ approvals'[NextApprovalId].approved_by = "emergency_system"
             /\ IF slack = "ok" /\ slack_channel # None
                THEN /\ Cardinality(sent' \ sent) = 1
                     /\ \A m \in sent' \ sent :
                          /\ m.kind = "error_notification"
                          /\ m.severity = "critical"
                          /\ m.channel = slack_channel
                ELSE sent' = sent
      ]_vars

\* minutes after which a request for the incident expires when the caller
\* gives none
PolicyTimeout(incident) ==
    IF incident.severity = "critical" THEN 30
    ELSE IF incident.severity = "high" THEN 45
    ELSE 60

(***************************************************************************)
(* C14. Manual approval request: request_approval with approval_type       *)
(* manual for a stored incident returns the record it creates, pending,    *)
(* expiring auto_approve_after minutes after its creation (the policy      *)
(* timeout when none is given); the record is pending afterwards whether   *)
(* the send succeeded or failed.  An approval-request message naming the   *)
(* record's approvers is posted to the channel when Slack is configured, a *)
(* channel is given and Slack accepts messages, and no message is posted   *)
(* when Slack is not configured or no channel is given.                    *)
(***************************************************************************)
C14_ManualRequest ==
    [][\A incident_id \in 1..Len(incidents), approvers \in ApproverLists,
          auto_approve_after \in Timeouts, slack_channel \in SlackChannels,
          slack \in SlackStates :
          ( /\ last'.op = "request_approval"
            /\ request_approval(incident_id, "manual", approvers, auto_approve_after,
                                slack_channel, slack, "none") )
          => /\ last'.out = "ok"
             /\ last'.result.kind = "record"
             /\ last'.result.record.status = "pending"
             /\ last'.result.record.created_at = now
             /\ last'.result.record.expires_at =
                   now + (IF auto_approve_after # 0 THEN auto_approve_after
                          ELSE PolicyTimeout(incidents[incident_id]))
             /\ approvals'[NextApprovalId].status = "pending"
             /\ IF slack = "ok" /\ slack_channel # None
                THEN /\ Cardinality(sent' \ sent) = 1
                     /\ \A m \in sent' \ sent :
                          /\ m.kind = "approval_request"
                          /\ m.channel = slack_channel
                          /\ m.approvers = last'.result.record.approvers
                ELSE sent' = sent
      ]_vars

(***************************************************************************)
(* C15. Approval policy: for a critical incident the policy has the        *)
(* default approvers admin, tech-lead and security-team, a timeout of 30   *)
(* minutes and require_multiple_approvers; for a production incident of    *)
(* any severity it has require_multiple_approvers; for an incident that is *)
(* neither critical nor production it has not.  A manual request without   *)
(* approvers for a critical production incident returns a record whose     *)
(* approvers contain security-team.                                        *)
(***************************************************************************)
C15_ApprovalPolicy ==
    /\ [](\A i \in 1..Len(incidents) :
             LET incident == incidents[i]
                 approval_config == _get_approval_config(incident)
             IN /\ incident.severity = "critical"
                     => /\ approval_config.default_approvers =
                              {"admin", "tech-lead", "security-team"}
                        /\ approval_config.auto_approve_timeout = 30
                        /\ approval_config.require_multiple_approvers = TRUE
                /\ incident.environment = "production"
                     => approval_config.require_multiple_approvers = TRUE
                /\ incident.severity # "critical" /\ incident.environment # "production"
                     => approval_config.require_multiple_approvers = FALSE)
    /\ [][\A incident_id \in 1..Len(incidents), auto_approve_after \in Timeouts,
             slack_channel \in SlackChannels, slack \in SlackStates :
             ( /\ last'.op = "request_approval"
               /\ incidents[incident_id].severity = "critical"
               /\ incidents[incident_id].environment = "production"
               /\ request_approval(incident_id, "manual", {}, auto_approve_after,
                                   slack_channel, slack, "none") )
             => /\ last'.out = "ok"
                /\ "security-team" \in last'.result.record.approvers
                /\ "security-team" \in approvals'[NextApprovalId].approvers
         ]_vars

\* a manual request without approvers for a critical production incident
\* has returned its record
C15_Witness ==
    /\ last.op = "request_approval"
    /\ last.out = "ok"
    /\ last.result.kind = "record"
    /\ incidents[last.result.record.incident_id].severity = "critical"
    /\ incidents[last.result.record.incident_id].environment = "production"
    /\ last.result.record.approvers = {"admin", "tech-lead", "security-team"}
    /\ last.result.record.expires_at = last.result.record.created_at + 30

(***************************************************************************)
(* C16. Audit of decisions: every process_approval_response call that      *)
(* approves or rejects (the database accepting the commit) adds exactly    *)
(* one audit log entry, with action approval_approve or approval_reject,   *)
(* resource type approval and the approval id as resource id -- for every  *)
(* approver that can decide, the default approvers admin and tech-lead     *)
(* included.                                                               *)
(***************************************************************************)
C16_DecisionAudited ==
    [][\A id \in ApprovalIds, approver_id \in ApproverIds,
          action \in {"approve", "reject"}, comment \in Comments :
          ( /\ process_approval_response(id, approver_id, action, comment, "none")
            /\ last'.op = "process_approval_response"
            /\ last'.out = "ok" )
          => /\ Len(audit_logs') = Len(audit_logs) + 1
             /\ audit_logs'[Len(audit_logs')].action =
                   (IF action = "approve" THEN "approval_approve" ELSE "approval_reject")
             /\ audit_logs'[Len(audit_logs')].resource_type = "approval"
             /\ audit_logs'[Len(audit_logs')].resource_id = id
      ]_vars

(***************************************************************************)
(* C17. Audit failure is swallowed: a process_approval_response call by an *)
(* approver the service accepts, with action approve or reject, returns    *)
(* the result of the decision and leaves the record with the decided       *)
(* status also when the audit entry cannot be built or its commit fails,   *)
(* that is, when no audit entry was added.                                 *)
(***************************************************************************)
C17_AuditFailureSwallowed ==
    [][\A id \in ApprovalIds, approver_id \in {"admin", "tech-lead"},
          action \in {"approve", "reject"}, comment \in Comments,
          f \in {"none", "commit"} :
          ( /\ last'.op = "process_approval_response"
            /\ process_approval_response(id, approver_id, action, comment, f)
            /\ audit_logs' = audit_logs )
          => /\ last'.out = "ok"
             /\ last'.result.approved = (action = "approve")
             /\ last'.result.comment = comment
             /\ approvals'[id].status =
                   (IF action = "approve" THEN "approved" ELSE "rejected")
      ]_vars

\* a rejection was returned and recorded although no audit entry exists
C17_Witness ==
    /\ last.op = "process_approval_response"
    /\ last.out = "ok"
    /\ last.result.kind = "rejected"
    /\ 1 \in DOMAIN approvals
    /\ approvals[1].status = "rejected"
    /\ approvals[1].rejected_by = "tech-lead"
    /\ audit_logs = <<>>

(***************************************************************************)
(* C18. Expiry is not enforced: check_expired_approvals returns an empty   *)
(* list and changes no approval record, whatever records exist and         *)
(* whether or not their expires_at lies in the past; no record has the     *)
(* status expired in any reachable state, and a pending manual record is   *)
(* still pending after a check made when its expiry has passed.            *)
(***************************************************************************)
C18_ExpiryNotEnforced ==
    /\ [][last'.op = "check_expired_approvals" /\ CheckExpiredApprovals
             => /\ last'.out = "ok"
                /\ last'.result.approvals = {}
                /\ approvals' = approvals
         ]_vars
    /\ [](\A id \in DOMAIN approvals : approvals[id].status # "expired")

\* a check has run while a pending manual record was overdue
C18_Witness ==
    /\ last.op = "check_expired_approvals"
    /\ 1 \in Overdue
    /\ approvals[1].approval_type = "manual"
    /\ approvals[1].incident_id # DummyIncidentId
    /\ approvals[1].status = "pending"

(***************************************************************************)
(* C19. Status snapshot: get_approval_status(id) returns the status,       *)
(* incident_id, approval_type, approvers, approved_by, expires_at and      *)
(* comment of the record the id has at the time of the call, as            *)
(* request_approval and any later process_approval_response left it, and   *)
(* changes no record.                                                      *)
(***************************************************************************)
C19_StatusSnapshot ==
    [][\A id \in DOMAIN approvals :
          ( /\ last'.op = "get_approval_status"
            /\ get_approval_status(id) )
          => /\ last'.out = "ok"
             /\ last'.result.status = approvals[id].status
             /\ last'.result.incident_id = approvals[id].incident_id
             /\ last'.result.approval_type = approvals[id].approval_type
             /\ last'.result.approvers = approvals[id].approvers
             /\ last'.result.approved_by = approvals[id].approved_by
             /\ last'.result.expires_at = approvals[id].expires_at
             /\ last'.result.comment = approvals[id].comment
             /\ approvals' = approvals
      ]_vars

\* ---------------------------------------------------------------------------
\* MonitoringService: alert rules evaluated by the monitoring loop
\* ---------------------------------------------------------------------------

MaxPasses == 3

\* last_triggered = None
NeverTriggered == 0

AlertRule(name, condition, threshold, time_window, severity, channels) ==
    [name |-> name, condition |-> condition, threshold |-> threshold,
     time_window |-> time_window, severity |-> severity, channels |-> channels,
     enabled |-> TRUE, last_triggered |-> NeverTriggered]

_setup_default_rules ==
    <<AlertRule("critical_error_spike", "critical_errors", 3, 5, "critical",
                <<"alerts-critical">>),
      AlertRule("high_error_rate", "error_rate", 10, 10, "high",
                <<"alerts-high">>),
      AlertRule("service_error_spike", "service_errors", 5, 15, "medium",
                <<"alerts-medium">>),
      AlertRule("remediation_failure_rate", "remediation_failures", 3, 30, "high",
                <<"alerts-remediation">>)>>

\* WHERE ErrorIncident.created_at >= since
CreatedSince(store, since) ==
    {i \in 1..Len(store) : store[i].created_at >= since}

\* mutant: the threshold itself does not fire
_check_critical_errors_strict(store, since, threshold, exc) ==
    IF exc THEN FALSE
    ELSE Cardinality({i \in CreatedSince(store, since) :
                         store[i].severity = "critical"}) > threshold

\* count = result.scalar() or 0; return count >= threshold; an exception of
\* the query (exc) is logged and the check returns False
_check_critical_errors(store, since, threshold, exc) ==
    IF exc THEN FALSE
    ELSE Cardinality({i \in CreatedSince(store, since) :
                         store[i].severity = "critical"}) >= threshold

_check_error_rate(store, since, threshold, exc) ==
    IF exc THEN FALSE
    ELSE Cardinality(CreatedSince(store, since)) >= threshold

\* GROUP BY service_name HAVING count >= threshold;
\* return len(services_with_errors) > 0
_check_service_errors(store, since, threshold, exc) ==
    LET rows == CreatedSince(store, since)
        services_with_errors ==
            {s \in {store[i].service_name : i \in rows} :
                Cardinality({i \in rows : store[i].service_name = s}) >= threshold}
    IN IF exc THEN FALSE ELSE services_with_errors # {}

\* the body is a TODO that returns False without a query
_check_remediation_failures(store, since, threshold, exc) == FALSE

_evaluate_rule(rule, store, at, exc) ==
    LET time_window_start == at - rule.time_window
    IN IF rule.condition = "critical_errors"
       THEN _check_critical_errors(store, time_window_start, rule.threshold, exc)
       ELSE IF rule.condition = "error_rate"
       THEN _check_error_rate(store, time_window_start, rule.threshold, exc)
       ELSE IF rule.condition = "service_errors"
       THEN _check_service_errors(store, time_window_start, rule.threshold, exc)
       ELSE IF rule.condition = "remediation_failures"
       THEN _check_remediation_failures(store, time_window_start, rule.threshold, exc)
       ELSE FALSE

\* the conditions whose check runs a query against the incident store
Queries(rule) ==
    rule.condition \in {"critical_errors", "error_rate", "service_errors"}

\* which store queries of a pass raise: none, or the query of one rule
QueryFaults(rules) ==
    {excs \in [DOMAIN rules -> BOOLEAN] :
        /\ \A i \in DOMAIN rules : excs[i] => Queries(rules[i])
        /\ Cardinality({i \in DOMAIN rules : excs[i]}) <= 1}

\* a message of the monitoring service that reached chat_postMessage
AlertMessage(kind, rule, position, at) ==
    [kind |-> kind, rule |-> rule.name, channel |-> rule.channels[position],
     position |-> position, severity |-> rule.severity, at |-> at]

\* send_remediation_notification builds its blocks without the settings
\* object: the message is posted whenever Slack accepts it
RemediationDelivered(slack) == slack = "ok"

\* slack_service.send_error_notification(channel, alert_data, rule.severity)
_send_alert_notification(position, rule, slack, at) ==
    IF Delivered(slack)
    THEN {AlertMessage("error_notification", rule, position, at)}
    ELSE {}

\* slack_service.send_remediation_notification(channel, ..., status="resolved")
_send_resolution_notification(position, rule, slack, at) ==
    IF slack # "unconfigured" /\ RemediationDelivered(slack)
    THEN {AlertMessage("resolved", rule, position, at)}
    ELSE {}

\* is_configured(): the client exists
is_configured(slack) == slack # "unconfigured"

_trigger_alert(rule, active, slack, at) ==
    IF rule.name \in active
    THEN [rule |-> rule, active |-> active, posted |-> {}]
    ELSE [rule |-> [rule EXCEPT !.last_triggered = at],
          active |-> active \cup {rule.name},
          posted |-> IF is_configured(slack)
                     THEN UNION {_send_alert_notification(p, rule, slack, at) :
                                    p \in DOMAIN rule.channels}
                     ELSE {}]

_resolve_alert(rule, active, slack, at) ==
    IF rule.name \in active
    THEN [rule |-> rule, active |-> active \ {rule.name},
          posted |-> IF is_configured(slack)
                     THEN UNION {_send_resolution_notification(p, rule, slack, at) :
                                    p \in DOMAIN rule.channels}
                     ELSE {}]
    ELSE [rule |-> rule, active |-> active, posted |-> {}]

\* for rule in self.alert_rules, from position i on; excs[i] tells whether
\* the store query of rule i raises
RECURSIVE _check_alert_rules_from(_, _, _, _, _, _, _, _)
_check_alert_rules_from(i, rules, active, posted, store, excs, slack, at) ==
    IF i > Len(rules)
    THEN [rules |-> rules, active |-> active, posted |-> posted]
    ELSE IF ~rules[i].enabled
    THEN _check_alert_rules_from(i + 1, rules, active, posted, store, excs, slack, at)
    ELSE LET should_trigger == _evaluate_rule(rules[i], store, at, excs[i])
             step == IF should_trigger
                     THEN _trigger_alert(rules[i], active, slack, at)
                     ELSE IF rules[i].name \in active
                     THEN _resolve_alert(rules[i], active, slack, at)
                     ELSE [rule |-> rules[i], active |-> active, posted |-> {}]
         IN _check_alert_rules_from(i + 1, [rules EXCEPT ![i] = step.rule],
                                    step.active, posted \cup step.posted,
                                    store, excs, slack, at)

_check_alert_rules(rules, active, store, excs, slack, at) ==
    _check_alert_rules_from(1, rules, active, {}, store, excs, slack, at)

\* the first rule of the name, as next((r for r in rules if r.name == name), None)
RulePositions(rules, name) == {i \in DOMAIN rules : rules[i].name = name}

FirstPosition(rules, name) ==
    CHOOSE i \in RulePositions(rules, name) :
        \A j \in RulePositions(rules, name) : i <= j

\* list.remove of the element at position i
RemoveAt(rules, i) ==
    [k \in 1..(Len(rules) - 1) |-> IF k < i THEN rules[k] ELSE rules[k + 1]]

\* mutant: the rule is appended without the lookup by name
add_alert_rule_unchecked(rules, rule) ==
    [rules |-> Append(rules, rule), ret |-> TRUE]

add_alert_rule(rules, rule) ==
    IF RulePositions(rules, rule.name) # {}
    THEN [rules |-> rules, ret |-> FALSE]
    ELSE [rules |-> Append(rules, rule), ret |-> TRUE]

\* mutant: the active alert of the removed rule is kept
remove_alert_rule_keeping_alert(rules, active, rule_name) ==
    IF RulePositions(rules, rule_name) = {}
    THEN [rules |-> rules, active |-> active, ret |-> FALSE]
    ELSE [rules |-> RemoveAt(rules, FirstPosition(rules, rule_name)),
          active |-> active, ret |-> TRUE]

remove_alert_rule(rules, active, rule_name) ==
    IF RulePositions(rules, rule_name) = {}
    THEN [rules |-> rules, active |-> active, ret |-> FALSE]
    ELSE [rules |-> RemoveAt(rules, FirstPosition(rules, rule_name)),
          active |-> active \ {rule_name}, ret |-> TRUE]

\* rows of error_incidents as create_incident leaves them, with the column
\* created_at the monitoring queries read
SeedMessages ==
    <<"m1", "m2", "m3", "m4", "m5", "m6", "m7", "m8", "m9", "m10", "m11", "m12">>

SeedRow(k, severity, service_name, created_at) ==
    ErrorIncident("ValueError", severity, service_name, "production", SeedMessages[k])
        @@ [created_at |-> created_at]

\* one critical row older than every window, then `critical` critical rows
\* and `high` high rows of service svc and `other` high rows of service
\* other, all created at minute 0
SeedStore(critical, high, other) ==
    [k \in 1..(1 + critical + high + other) |->
        IF k = 1 THEN SeedRow(k, "critical", "svc", 0 - 31)
        ELSE IF k <= 1 + critical THEN SeedRow(k, "critical", "svc", 0)
        ELSE IF k <= 1 + critical + high THEN SeedRow(k, "high", "svc", 0)
        ELSE SeedRow(k, "high", "other", 0)]

\* the stores a run starts from: every default rule below its threshold,
\* every querying default rule exactly at its threshold
Seeds == {<<2, 2, 4>>, <<3, 2, 5>>}

\* the rules add_alert_rule is called with
NewRules ==
    {AlertRule("custom", "critical_errors", 2, 1, "high", <<"alerts-a", "alerts-b">>),
     AlertRule("custom", "unknown_condition", 1, 5, "low", <<"alerts-a">>),
     [AlertRule("custom", "error_rate", 1, 5, "low", <<"alerts-a">>)
         EXCEPT !.enabled = FALSE],
     AlertRule("critical_error_spike", "error_rate", 1, 5, "low", <<"alerts-a">>)}

\* the names remove_alert_rule is called with
RemovedNames == {"service_error_spike", "custom", "no_such_rule"}

\* MonitoringService(db, slack_service) over a store that holds reports
InitMonitoring ==
    /\ \E seed \in Seeds : incidents = SeedStore(seed[1], seed[2], seed[3])
    /\ attempts = <<>>
    /\ last = NoCall
    /\ sess = <<>>
    /\ approvals = <<>>
    /\ sent = {}
    /\ audit_logs = <<>>
    /\ now = 1
    /\ alert_rules = _setup_default_rules
    /\ active_alerts = {}

\* one turn of _monitoring_loop: an evaluation pass, then sleep(60)
CheckAlertRules ==
    /\ now <= MaxPasses
    /\ \E slack \in SlackStates, excs \in QueryFaults(alert_rules) :
          /\ LET pass == _check_alert_rules(alert_rules, active_alerts, incidents,
                                            excs, slack, now)
             IN /\ alert_rules' = pass.rules
                /\ active_alerts' = pass.active
                /\ sent' = sent \cup pass.posted
                /\ last' = Returned("_check_alert_rules",
                                    [kind |-> "pass", slack |-> slack,
                                     should_trigger |->
                                         [i \in DOMAIN alert_rules |->
                                             _evaluate_rule(alert_rules[i], incidents,
                                                            now, excs[i])],
                                     posted |-> pass.posted])
    /\ now' = now + 1
    /\ UNCHANGED <<incidents, attempts, sess, approvals, audit_logs>>

AddAlertRule ==
    /\ \E rule \in NewRules :
          LET call == add_alert_rule(alert_rules, rule)
          IN /\ alert_rules' = call.rules
             /\ last' = Returned("add_alert_rule",
                                 [kind |-> "bool", ret |-> call.ret, rule |-> rule])
    /\ UNCHANGED <<incidents, attempts, sess, approvals, sent, audit_logs, now,
                   active_alerts>>

RemoveAlertRule ==
    /\ \E rule_name \in RemovedNames :
          LET call == remove_alert_rule(alert_rules, active_alerts, rule_name)
          IN /\ alert_rules' = call.rules
             /\ active_alerts' = call.active
             /\ last' = Returned("remove_alert_rule",
                                 [kind |-> "bool", ret |-> call.ret,
                                  rule_name |-> rule_name,
                                  purged |-> call.ret /\ rule_name \in active_alerts])
    /\ UNCHANGED <<incidents, attempts, sess, approvals, sent, audit_logs, now>>

NextMonitoring ==
    \/ CheckAlertRules
    \/ AddAlertRule
    \/ RemoveAlertRule

SpecMonitoring == InitMonitoring /\ [][NextMonitoring]_vars

\* ---------------------------------------------------------------------------
\* The monitoring task: _monitoring_loop run as an asyncio task, suspended at
\* its awaits, with start_monitoring, stop_monitoring, add_alert_rule and
\* remove_alert_rule called in between.  In this specification sess is
\*   monitoring_task  the position in tasks of self._monitoring_task (0: None)
\*   tasks            the tasks created, each with its position in the loop
\*   stops            the tasks that a suspended stop_monitoring call awaits
\* ---------------------------------------------------------------------------

MaxTasks == 2

\* evaluation passes begun by the tasks of a run
MaxLoopPasses == 1

NoTask == 0

\* the value of the loop variable `rule` outside the body of the for loop
NoRule == AlertRule("", "", 0, 0, "", <<>>)

\* a task: pos is "created" (scheduled, not yet run), "evaluate" (suspended
\* at the store query of _evaluate_rule for rule i), "metrics" (suspended at
\* the queries of _get_alert_metrics inside _trigger_alert), "sleeping"
\* (suspended at asyncio.sleep) or "done"; must_cancel is set by cancel()
\* (cancelled_at: the position at which CancelledError reached the task;
\* seen: the names of the rules the for loop of the current pass has fetched)
Task(pos, i, rule, seen) ==
    [pos |-> pos, must_cancel |-> FALSE, i |-> i, rule |-> rule, seen |-> seen,
     cancelled_at |-> ""]

\* the for loop of _check_alert_rules from the fetch of element i up to the
\* next await that suspends, or to the end of the pass: a disabled rule is
\* skipped, a rule whose check runs no query is evaluated (to False) and
\* resolved at once
RECURSIVE _check_alert_rules_until_await(_, _, _, _, _, _, _)
_check_alert_rules_until_await(i, rules, active, posted, seen, slack, at) ==
    IF i > Len(rules)
    THEN [task |-> Task("sleeping", 0, NoRule, seen), active |-> active,
          posted |-> posted]
    ELSE IF ~rules[i].enabled
    THEN _check_alert_rules_until_await(i + 1, rules, active, posted,
                                        seen \cup {rules[i].name}, slack, at)
    ELSE IF Queries(rules[i])
    THEN [task |-> Task("evaluate", i, rules[i], seen \cup {rules[i].name}),
          active |-> active, posted |-> posted]
    ELSE LET step == IF rules[i].name \in active
                     THEN _resolve_alert(rules[i], active, slack, at)
                     ELSE [rule |-> rules[i], active |-> active, posted |-> {}]
         IN _check_alert_rules_until_await(i + 1, rules, step.active,
                                           posted \cup step.posted,
                                           seen \cup {rules[i].name}, slack, at)

\* rule.last_triggered = utcnow() on the rule object the pass holds, which
\* is in the list only as long as it has not been removed
SetLastTriggered(rules, rule, at) ==
    [k \in DOMAIN rules |->
        IF rules[k] = rule THEN [rule EXCEPT !.last_triggered = at] ELSE rules[k]]

\* the task resumes after the store query of _evaluate_rule(task.rule)
AfterEvaluate(task, rules, active, store, exc, slack, at) ==
    LET should_trigger == _evaluate_rule(task.rule, store, at, exc)
    IN IF should_trigger /\ task.rule.name \notin active
       THEN [task |-> Task("metrics", task.i,
                           [task.rule EXCEPT !.last_triggered = at], task.seen),
             rules |-> SetLastTriggered(rules, task.rule, at),
             active |-> active \cup {task.rule.name}, posted |-> {}]
       ELSE LET step == IF ~should_trigger /\ task.rule.name \in active
                        THEN _resolve_alert(task.rule, active, slack, at)
                        ELSE [rule |-> task.rule, active |-> active, posted |-> {}]
                rest == _check_alert_rules_until_await(task.i + 1, rules, step.active,
                                                       step.posted, task.seen, slack, at)
            IN [task |-> rest.task, rules |-> rules, active |-> rest.active,
                posted |-> rest.posted]

\* the task resumes after _get_alert_metrics: the notifications of
\* _trigger_alert, then the rest of the for loop
AfterMetrics(task, rules, active, slack, at) ==
    LET notified ==
            IF is_configured(slack)
            THEN UNION {_send_alert_notification(p, task.rule, slack, at) :
                           p \in DOMAIN task.rule.channels}
            ELSE {}
        rest == _check_alert_rules_until_await(task.i + 1, rules, active, notified,
                                               task.seen, slack, at)
    IN [task |-> rest.task, rules |-> rules, active |-> rest.active,
        posted |-> rest.posted]

\* a pass begins: the for loop from its first element
BeginPass(rules, active, slack, at) ==
    LET rest == _check_alert_rules_until_await(1, rules, active, {}, {}, slack, at)
    IN [task |-> rest.task, rules |-> rules, active |-> rest.active,
        posted |-> rest.posted]

\* self._monitoring_task and not self._monitoring_task.done()
Running(s) ==
    s.monitoring_task # NoTask /\ s.tasks[s.monitoring_task].pos # "done"

\* mutant: a task is created whatever the state of the previous one
start_monitoring_unguarded(s) ==
    [s EXCEPT !.tasks = Append(@, Task("created", 0, NoRule, {})),
              !.monitoring_task = Len(s.tasks) + 1]

start_monitoring(s) ==
    IF Running(s) THEN s
    ELSE [s EXCEPT !.tasks = Append(@, Task("created", 0, NoRule, {})),
                   !.monitoring_task = Len(s.tasks) + 1]

\* stop_monitoring up to its await: cancel() marks the task, and the call
\* is suspended until the task is done
stop_monitoring(s) ==
    IF Running(s)
    THEN [s EXCEPT !.tasks[s.monitoring_task].must_cancel = TRUE,
                   !.stops = @ \cup {s.monitoring_task}]
    ELSE s

\* MonitoringService(db, slack_service): no task yet
InitLoop ==
    /\ incidents = SeedStore(3, 1, 4)
    /\ attempts = <<>>
    /\ last = NoCall
    /\ sess = [monitoring_task |-> NoTask, tasks |-> <<>>, stops |-> {}]
    /\ approvals = <<>>
    /\ sent = {}
    /\ audit_logs = <<>>
    /\ now = 1
    /\ alert_rules = _setup_default_rules
    /\ active_alerts = {}

StartMonitoring ==
    /\ Running(sess) \/ Len(sess.tasks) < MaxTasks
    /\ sess' = start_monitoring(sess)
    /\ last' = Returned("start_monitoring",
                        [kind |-> "start", created |-> Len(sess'.tasks) > Len(sess.tasks)])
    /\ UNCHANGED <<incidents, attempts, approvals, sent, audit_logs, now, alert_rules,
                   active_alerts>>

\* stop_monitoring is called: it returns at once if no task is running and
\* is suspended at `await self._monitoring_task` otherwise
StopMonitoring ==
    /\ sess' = stop_monitoring(sess)
    /\ last' = Returned("stop_monitoring",
                        [kind |-> "stop", returned |-> ~Running(sess),
                         awaited |-> IF Running(sess) THEN sess.monitoring_task
                                     ELSE NoTask])
    /\ UNCHANGED <<incidents, attempts, approvals, sent, audit_logs, now, alert_rules,
                   active_alerts>>

\* the awaited task is done: stop_monitoring resumes and returns
StopMonitoringReturns(t) ==
    /\ t \in sess.stops
    /\ sess.tasks[t].pos = "done"
    /\ sess' = [sess EXCEPT !.stops = @ \ {t}]
    /\ last' = Returned("stop_monitoring",
                        [kind |-> "stop", returned |-> TRUE, awaited |-> t])
    /\ UNCHANGED <<incidents, attempts, approvals, sent, audit_logs, now, alert_rules,
                   active_alerts>>

\* the event loop runs task t up to its next await.  A task marked by
\* cancel() gets CancelledError at the await it is suspended at (or before
\* its first step); no `except Exception` of the pass catches it, the loop
\* catches it and returns
RunTask(t) ==
    /\ t \in DOMAIN sess.tasks
    /\ sess.tasks[t].pos # "done"
    /\ IF sess.tasks[t].must_cancel
       THEN /\ sess' = [sess EXCEPT !.tasks[t] =
                           [Task("done", 0, NoRule, {}) EXCEPT
                               !.must_cancel = TRUE,
                               !.cancelled_at = sess.tasks[t].pos]]
            /\ last' = Returned("_monitoring_loop",
                                [kind |-> "task", task |-> t, began |-> FALSE,
                                 posted |-> {}])
            /\ UNCHANGED <<now, alert_rules, active_alerts, sent>>
       ELSE \E slack \in SlackStates, exc \in BOOLEAN :
               LET task == sess.tasks[t]
                   wakes == task.pos = "sleeping"
                   at == IF wakes THEN now + 1 ELSE now
                   run == IF task.pos \in {"created", "sleeping"}
                          THEN BeginPass(alert_rules, active_alerts, slack, at)
                          ELSE IF task.pos = "evaluate"
                          THEN AfterEvaluate(task, alert_rules, active_alerts,
                                             incidents, exc, slack, at)
                          ELSE AfterMetrics(task, alert_rules, active_alerts, slack, at)
               IN /\ task.pos \in {"created", "sleeping"} => (at <= MaxLoopPasses /\ ~exc)
                  /\ task.pos = "metrics" => ~exc
                  /\ now' = at
                  /\ sess' = [sess EXCEPT !.tasks[t] = run.task]
                  /\ alert_rules' = run.rules
                  /\ active_alerts' = run.active
                  /\ sent' = sent \cup run.posted
                  /\ last' = Returned("_monitoring_loop",
                                      [kind |-> "task", task |-> t,
                                       began |-> task.pos \in {"created", "sleeping"},
                                       posted |-> run.posted])
    /\ UNCHANGED <<incidents, attempts, approvals, audit_logs>>

\* the task started, stopped and restarted
NextLoop ==
    \/ StartMonitoring
    \/ StopMonitoring
    \/ \E t \in 1..MaxTasks : StopMonitoringReturns(t)
    \/ \E t \in 1..MaxTasks : RunTask(t)

SpecLoop == InitLoop /\ [][NextLoop]_vars

\* the event loop runs every task that is ready and resumes every call
\* whose awaited task is done
SpecLoopFair ==
    /\ SpecLoop
    /\ \A t \in 1..MaxTasks : WF_vars(RunTask(t)) /\ WF_vars(StopMonitoringReturns(t))

\* the rules managed while the task runs
NextPass ==
    \/ StartMonitoring
    \/ \E t \in 1..MaxTasks : RunTask(t)
    \/ AddAlertRule
    \/ RemoveAlertRule

SpecPass == InitLoop /\ [][NextPass]_vars

\* the messages of one kind posted for a rule in the pass just taken
PostedInPass(rule, kind) ==
    {m \in last'.result.posted : m.rule = rule.name /\ m.kind = kind}

OnePerChannel(rule, kind) ==
    \A p \in DOMAIN rule.channels :
        Cardinality({m \in PostedInPass(rule, kind) : m.position = p}) = 1

\* C20: for an enabled rule, with Slack configured and accepting messages, a
\* pass that finds the condition true while the rule is not active posts
\* exactly one firing notification per channel of the rule and makes the rule
\* active; the next pass that finds it true again posts nothing for the rule;
\* the pass that then finds it false posts exactly one resolved notification
\* per channel and leaves the rule name out of the active-alert set
C20_AlertDeduplication ==
    [][CheckAlertRules =>
        \A i \in DOMAIN alert_rules :
            LET rule == alert_rules[i]
                should_trigger == last'.result.should_trigger[i]
            IN (rule.enabled /\ last'.result.slack = "ok") =>
                  /\ (should_trigger /\ rule.name \notin active_alerts) =>
                        /\ OnePerChannel(rule, "error_notification")
                        /\ PostedInPass(rule, "resolved") = {}
                        /\ rule.name \in active_alerts'
                  /\ (should_trigger /\ rule.name \in active_alerts) =>
                        /\ PostedInPass(rule, "error_notification") = {}
                        /\ PostedInPass(rule, "resolved") = {}
                        /\ rule.name \in active_alerts'
                  /\ (~should_trigger /\ rule.name \in active_alerts) =>
                        /\ OnePerChannel(rule, "resolved")
                        /\ PostedInPass(rule, "error_notification") = {}
                        /\ rule.name \notin active_alerts']_vars

\* the incidents of the store created within the last `minutes` minutes
Recent(minutes) ==
    {i \in DOMAIN incidents : now - incidents[i].created_at <= minutes}

\* the condition of a rule as the rule names it, over the recent incidents
ConditionHolds(rule) ==
    LET recent == Recent(rule.time_window)
    IN \/ /\ rule.condition = "critical_errors"
          /\ Cardinality({i \in recent : incidents[i].severity = "critical"})
                >= rule.threshold
       \/ /\ rule.condition = "error_rate"
          /\ Cardinality(recent) >= rule.threshold
       \/ /\ rule.condition = "service_errors"
          /\ \E i \in recent :
                Cardinality({j \in recent :
                    incidents[j].service_name = incidents[i].service_name})
                   >= rule.threshold

\* C21: after an evaluation pass whose store query for an enabled rule did
\* not raise, the rule is in the active-alert set exactly when its condition
\* holds over the incidents created within its time window (the threshold
\* itself fires; remediation_failures and unknown conditions never fire);
\* with 3 critical incidents in the last 5 minutes critical_error_spike is
\* active after the pass
C21_RuleFiresOnCondition ==
    \A slack \in SlackStates, excs \in QueryFaults(alert_rules) :
        LET pass == _check_alert_rules(alert_rules, active_alerts, incidents,
                                       excs, slack, now)
        IN \A i \in DOMAIN alert_rules :
              (alert_rules[i].enabled /\ ~excs[i]) =>
                 /\ alert_rules[i].name \in pass.active <=> ConditionHolds(alert_rules[i])
                 /\ (/\ alert_rules[i] = _setup_default_rules[1]
                     /\ Cardinality({j \in Recent(5) :
                                        incidents[j].severity = "critical"}) = 3)
                       => "critical_error_spike" \in pass.active

\* a pass has put critical_error_spike into the active set over a store with
\* exactly 3 critical incidents in the last 5 minutes, while an enabled rule
\* with an unknown condition is registered and not active
C21_Witness ==
    /\ last.op = "_check_alert_rules"
    /\ "critical_error_spike" \in active_alerts
    /\ Cardinality({j \in Recent(5) : incidents[j].severity = "critical"}) = 3
    /\ \E i \in DOMAIN alert_rules :
          /\ alert_rules[i].condition = "unknown_condition"
          /\ alert_rules[i].name \notin active_alerts

RegisteredNames == {alert_rules[i].name : i \in DOMAIN alert_rules}

NoDuplicateNames ==
    \A i, j \in DOMAIN alert_rules :
        alert_rules[i].name = alert_rules[j].name => i = j

\* C22: add_alert_rule with the name of a registered rule returns false and
\* leaves the rule list and the active-alert set as they were; in every state
\* reached from the four default rules by add_alert_rule, remove_alert_rule
\* and evaluation passes no two registered rules have the same name
C22_UniqueRuleNames ==
    /\ []NoDuplicateNames
    /\ [][(AddAlertRule /\ last'.result.rule.name \in RegisteredNames) =>
             /\ last'.result.ret = FALSE
             /\ alert_rules' = alert_rules
             /\ active_alerts' = active_alerts]_vars

\* add_alert_rule has refused a rule named like a default rule that is
\* active at that moment
C22_Witness ==
    /\ last.op = "add_alert_rule"
    /\ last.result.ret = FALSE
    /\ last.result.rule.name = "critical_error_spike"
    /\ "critical_error_spike" \in active_alerts
    /\ Len(alert_rules) >= 4

NamedOtherThan(rule_name, rule) == rule.name # rule_name

\* C23: remove_alert_rule(name) for a registered rule returns true, takes
\* that rule out of the list and name out of the active-alert set, keeps
\* every other rule (in order) and every other active alert and posts no
\* message; for a name no rule has it returns false and changes nothing
C23_RemoveRuleFrame ==
    [][RemoveAlertRule =>
          LET rule_name == last'.result.rule_name
          IN /\ sent' = sent
             /\ incidents' = incidents
             /\ IF rule_name \in RegisteredNames
                THEN /\ last'.result.ret = TRUE
                     /\ alert_rules' =
                           SelectSeq(alert_rules,
                                     LAMBDA rule : NamedOtherThan(rule_name, rule))
                     /\ active_alerts' = active_alerts \ {rule_name}
                ELSE /\ last'.result.ret = FALSE
                     /\ alert_rules' = alert_rules
                     /\ active_alerts' = active_alerts]_vars

\* remove_alert_rule has removed a rule whose alert was active, while the
\* alert of another rule stays active
C23_Witness ==
    /\ last.op = "remove_alert_rule"
    /\ last.result.ret = TRUE
    /\ last.result.purged
    /\ last.result.rule_name \notin active_alerts
    /\ active_alerts # {}

LiveTasks == {t \in DOMAIN sess.tasks : sess.tasks[t].pos # "done"}

AtMostOneLoop == Cardinality(LiveTasks) <= 1

\* C24: at most one monitoring task is not done at any time, and
\* start_monitoring called while the task runs creates none; a task on which
\* cancel() was called begins no pass and changes no alert state, a pass
\* begins only in the task start_monitoring created last, and when
\* stop_monitoring returns the task it awaited is done and any task running
\* then was created by a later start_monitoring; whenever stop_monitoring
\* calls are suspended, they all return, wherever the task was suspended
C24_SingleLoopStops ==
    /\ []AtMostOneLoop
    /\ [][(StartMonitoring /\ Running(sess)) => sess'.tasks = sess.tasks]_vars
    /\ [][\A t \in 1..MaxTasks :
            /\ (RunTask(t) /\ sess.tasks[t].must_cancel) =>
                  /\ sess'.tasks[t].pos = "done"
                  /\ UNCHANGED <<alert_rules, active_alerts, sent>>
            /\ (RunTask(t) /\ last'.result.began) =>
                  /\ t = sess.monitoring_task
                  /\ ~sess.tasks[t].must_cancel
            /\ StopMonitoringReturns(t) =>
                  /\ sess'.tasks[t].pos = "done"
                  /\ LiveTasks' \subseteq {u \in DOMAIN sess.tasks : u > t}]_vars
    /\ (sess.stops # {}) ~> (sess.stops = {})

\* stop_monitoring has returned for a task that was cancelled in the middle
\* of a pass, after another task had been cancelled before its first step
\* or while it slept
C24_Witness ==
    /\ last.op = "stop_monitoring"
    /\ last.result.returned
    /\ last.result.awaited # NoTask
    /\ sess.tasks[last.result.awaited].cancelled_at \in {"evaluate", "metrics"}
    /\ \E t \in DOMAIN sess.tasks :
          sess.tasks[t].cancelled_at \in {"created", "sleeping"}
    /\ sess.stops = {}

C26_NoReportLost ==
    [][CommitIncident =>
          /\ TotalReports(incidents') =
                TotalReports(incidents) + (IF last'.out = "ok" THEN 1 ELSE 0)
          /\ \A i \in DOMAIN incidents' : incidents'[i].occurrence_count >= 1
          /\ \A i \in DOMAIN incidents :
                incidents'[i].occurrence_count >= incidents[i].occurrence_count]_vars

ActiveAlertsRegistered == active_alerts \subseteq RegisteredNames

\* C27: every name in the active-alert set is the name of a registered rule,
\* also when add_alert_rule or remove_alert_rule runs while a pass is
\* suspended at an await; and a pass that ends has fetched every enabled rule
\* registered at its end
C27_ActiveAlertsRegistered ==
    /\ []ActiveAlertsRegistered
    /\ [][\A t \in 1..MaxTasks :
            (RunTask(t) /\ sess'.tasks[t].pos = "sleeping") =>
               \A i \in DOMAIN alert_rules' :
                  alert_rules'[i].enabled =>
                     alert_rules'[i].name \in sess'.tasks[t].seen]_vars

\* C28: an approve from a member of the approvers list of a pending record
\* leaves the record approved by that member at once, whether or not the
\* policy of the incident asks for several approvers
C28_SingleApproverSuffices ==
    [][\A id \in DOMAIN approvals, approver_id \in ApproverIds,
          comment \in Comments, f \in {"none", "commit"} :
          ( /\ RequestedAndPending(approvals[id])
            /\ approver_id \in approvals[id].approvers
            /\ process_approval_response(id, approver_id, "approve", comment, f) )
          => /\ last'.out = "ok"
             /\ approvals'[id].status = "approved"
             /\ approvals'[id].approved_by = approver_id
      ]_vars

\* C29: in a pass in which the store query of an enabled rule raises, the
\* rule is in the active-alert set after the pass exactly if it was before,
\* and no resolved notification is posted for it
C29_FailedQueryKeepsAlert ==
    \A slack \in SlackStates, excs \in QueryFaults(alert_rules) :
        \A i \in DOMAIN alert_rules :
            ( /\ now <= MaxPasses
              /\ alert_rules[i].enabled
              /\ excs[i] )
            => LET pass == _check_alert_rules(alert_rules, active_alerts, incidents,
                                              excs, slack, now)
               IN /\ alert_rules[i].name \in pass.active
                     <=> alert_rules[i].name \in active_alerts
                  /\ \A m \in pass.posted :
                        ~(m.kind = "resolved" /\ m.rule = alert_rules[i].name)

(***************************************************************************)
(* CursorCLIAgent.test_fix over TestExecutionService (SpecAgent)            *)
(***************************************************************************)
\* a dict without keys, and dict.get(key) with its default None
EmptyDict == [key \in {} |-> None]

Get(dict, key) == IF key \in DOMAIN dict THEN dict[key] ELSE None

\* the languages test_fix is called with
Languages == {"python", "javascript", "typescript", "go"}

\* the repositories test_fix is called with
RepoPaths == {"/repo/a", "/repo/b"}

\* what the test command does: its exit code (-1: timed out or not started),
\* or the runner raises around it
UnitRuns ==
    {[raises |-> FALSE, exit_code |-> 0], [raises |-> FALSE, exit_code |-> 1],
     [raises |-> FALSE, exit_code |-> 0 - 1], [raises |-> TRUE, exit_code |-> 0]}

\* what the linters report: the number of issues, or the runner raises
LintRuns ==
    {[raises |-> FALSE, total_issues |-> 0], [raises |-> FALSE, total_issues |-> 2],
     [raises |-> TRUE, total_issues |-> 0]}

\* what bandit reports: the number of vulnerabilities, or the runner raises
ScanRuns ==
    {[raises |-> FALSE, total_vulnerabilities |-> 0],
     [raises |-> FALSE, total_vulnerabilities |-> 1],
     [raises |-> TRUE, total_vulnerabilities |-> 0]}

\* TestExecutionService(working_directory)
TestExecutionService(working_directory) == [working_directory |-> working_directory]

\* _run_pytest: "success" if exit_code == 0 else "failure"; an exception is
\* returned as status "error"
run_python_tests(unit) ==
    IF unit.raises
    THEN [status |-> "error", exit_code |-> 0 - 1]
    ELSE [status |-> IF unit.exit_code = 0 THEN "success" ELSE "failure",
          exit_code |-> unit.exit_code]

\* _run_jest: the same rule over the exit code of npx jest
run_javascript_tests(unit) ==
    IF unit.raises
    THEN [status |-> "error", exit_code |-> 0 - 1]
    ELSE [status |-> IF unit.exit_code = 0 THEN "success" ELSE "failure",
          exit_code |-> unit.exit_code]

\* python and javascript are linted; any other language raises ValueError,
\* returned as status "error"
run_linting(language, lint) ==
    IF language \notin {"python", "javascript"} \/ lint.raises
    THEN [status |-> "error", total_issues |-> 0]
    ELSE [status |-> IF lint.total_issues = 0 THEN "success" ELSE "issues_found",
          total_issues |-> lint.total_issues]

\* bandit for python, status "skipped" for any other language
run_security_scan(language, scan) ==
    IF language = "python"
    THEN IF scan.raises
         THEN [status |-> "error", total_vulnerabilities |-> 0]
         ELSE [status |-> IF scan.total_vulnerabilities = 0
                          THEN "success" ELSE "vulnerabilities_found",
               total_vulnerabilities |-> scan.total_vulnerabilities]
    ELSE [status |-> "skipped", total_vulnerabilities |-> 0]

\* mutant: the scan is requested for javascript and typescript as well
SecurityChecks_scanning_all(language, scan) ==
    IF language \in {"python", "javascript", "typescript"}
    THEN run_security_scan(language, scan)
    ELSE EmptyDict

\* results["security_checks"]: filled in the python branch only
SecurityChecks(language, scan) ==
    IF language = "python"
    THEN run_security_scan("python", scan)
    ELSE EmptyDict

\* test_fix(fix_data, repo_path, language): the service instance is reused
\* with its working directory set to repo_path; _apply_fix only logs
test_fix(test_service, repo_path, language, unit, lint, scan, at) ==
    LET unit_tests ==
            IF language = "python" THEN run_python_tests(unit)
            ELSE IF language \in {"javascript", "typescript"}
            THEN run_javascript_tests(unit)
            ELSE EmptyDict
        lint_checks ==
            IF language = "python" THEN run_linting("python", lint)
            ELSE IF language \in {"javascript", "typescript"}
            THEN run_linting("javascript", lint)
            ELSE EmptyDict
        security_checks == SecurityChecks(language, scan)
    IN [test_service |-> [test_service EXCEPT !.working_directory = repo_path],
        results |->
            [success |-> /\ Get(unit_tests, "status") = "success"
                         /\ Get(lint_checks, "status") \in {"success", "skipped"}
                         /\ Get(security_checks, "status") \in {"success", "skipped"},
             unit_tests |-> unit_tests,
             lint_checks |-> lint_checks,
             security_checks |-> security_checks,
             timestamp |-> at]]

\* CursorCLIAgent(): self.test_service = TestExecutionService() in os.getcwd()
InitAgent ==
    /\ incidents = <<>>
    /\ attempts = <<>>
    /\ last = NoCall
    /\ sess = [test_service |-> TestExecutionService(".")]
    /\ approvals = <<>>
    /\ sent = {}
    /\ audit_logs = <<>>
    /\ now = 0
    /\ alert_rules = <<>>
    /\ active_alerts = {}

TestFix ==
    /\ \E repo_path \in RepoPaths, language \in Languages,
          unit \in UnitRuns, lint \in LintRuns, scan \in ScanRuns :
          LET call == test_fix(sess.test_service, repo_path, language,
                               unit, lint, scan, now)
          IN /\ sess' = [sess EXCEPT !.test_service = call.test_service]
             /\ last' = Returned("test_fix",
                                 [kind |-> "results", language |-> language,
                                  unit |-> unit, lint |-> lint, scan |-> scan,
                                  results |-> call.results])
    /\ UNCHANGED <<incidents, attempts, approvals, sent, audit_logs, now,
                   alert_rules, active_alerts>>

NextAgent == TestFix

SpecAgent == InitAgent /\ [][NextAgent]_vars

\* C30: test_fix reports success exactly when the unit tests have status
\* success and the lint and security results have status success or skipped;
\* a javascript or typescript fix whose unit tests and lint succeed is
\* reported as a success, and a language for which no tests are run is not
C30_TestFixSuccess ==
    last.op = "test_fix"
    => LET results == last.result.results
           language == last.result.language
       IN /\ results.success
             <=> /\ Get(results.unit_tests, "status") = "success"
                 /\ Get(results.lint_checks, "status") \in {"success", "skipped"}
                 /\ Get(results.security_checks, "status") \in {"success", "skipped"}
          /\ ( /\ language \in {"javascript", "typescript"}
               /\ ~last.result.unit.raises /\ last.result.unit.exit_code = 0
               /\ ~last.result.lint.raises /\ last.result.lint.total_issues = 0 )
             => results.success
          /\ language \notin {"python", "javascript", "typescript"}
             => ~results.success

====
